---- MODULE Spec2Model ----
(***************************************************************************)
(* Model of the macOS bridge of tauri-plugin-iap (src/src/macos.rs) and of  *)
(* its error types (src/src/error.rs): the process-wide listener registry   *)
(* LISTENERS, the trigger entry point the native module calls, plugin init, *)
(* the Iap facade operations with the code-signature gate, and the          *)
(* marshaling of native results (ParseFfiResponse::parse).                  *)
(*                                                                         *)
(* Strings are sequences of characters (one-character strings); a fixed     *)
(* message text is written as a sequence holding the text as one element.   *)
(* Option<T> is a sequence: <<>> is None and <<x>> is Some(x).              *)
(***************************************************************************)
EXTENDS Integers, Sequences, FiniteSets

\* ------------------------------------------------------------------ bounds

\* Number of distinct channel ids the host hands out (u32 ids 1..NumIds).
NumIds == 2

\* Longest native payload / error message, in characters.
MaxLen == 3

\* Cap on the number of calls (of init, the facade, the registry and trigger)
\* that the host and the native module make in one behaviour.
MaxCalls == 4

\* Host tasks (callers of the facade) and native callback threads (callers of
\* trigger).
Hosts == {"h1", "h2", "h3"}

Natives == {"n1", "n2"}

Threads == Hosts \cup Natives

Events == {"purchaseUpdated", "productsUpdated"}

Ids == 1..NumIds

\* Distinct channel objects that carry the same id.
Insts == {"a", "b"}

Payloads == {"p1", "p2"}

\* ------------------------------------------------------------------ state

VARIABLES
    LISTENERS,    \* the OnceLock: [set |-> is it initialised, map |-> the HashMap]
    rwlock,       \* the RwLock inside it: [writer, readers, poisoned]
    iap,          \* has init returned an Iap handle (facade methods need one)
    codesign,     \* what the OS answers to the code-signing queries
    nativeCalls,  \* number of invocations of operations of the native module
    started,      \* number of calls made so far
    call          \* per thread: its current (or last) call and the call's locals

vars == <<LISTENERS, rwlock, iap, codesign, nativeCalls, started, call>>

\* ---------------------------------------------------------------- HashMap

EmptyMap == [k \in {} |-> k]

\* HashMap::insert: the entry for k is created or replaced.
Put(m, k, v) == [x \in DOMAIN m \cup {k} |-> IF x = k THEN v ELSE m[x]]

\* HashMap::remove: the entry for k, if any, is dropped.
Del(m, k) == [x \in DOMAIN m \ {k} |-> m[x]]

\* HashMap::get, as an Option.
Get(m, k) == IF k \in DOMAIN m THEN <<m[k]>> ELSE <<>>

\* tauri::ipc::Channel<String>: its id, and which channel object it is.
Channels == [id : Ids, inst : Insts]

\* An insert that gives the event a fresh map holding the one handler.
InsertListenerFreshMap(m, event, handler) ==
    Put(m, event, Put(EmptyMap, handler.id, handler))

\* An insert that keeps the handler the id already has (or_insert).
InsertListenerKeepsOld(m, event, handler) ==
    LET channels == IF event \in DOMAIN m THEN m[event] ELSE EmptyMap
    IN  IF handler.id \in DOMAIN channels
        THEN m
        ELSE Put(m, event, Put(channels, handler.id, handler))

\* guard.entry(event).or_default().insert(handler.id(), handler)
InsertListener(m, event, handler) ==
    LET channels == IF event \in DOMAIN m THEN m[event] ELSE EmptyMap
    IN  Put(m, event, Put(channels, handler.id, handler))

\* A removal that drops the whole entry of the event.
RemoveListenerDropsEvent(m, event, channel_id) == Del(m, event)

\* A removal that takes the id out of the channels of every event.
RemoveListenerFromEveryEvent(m, event, channel_id) ==
    [e \in DOMAIN m |-> Del(m[e], channel_id)]

\* if let Some(channels) = guard.get_mut(&event) { channels.remove(&channel_id); }
RemoveListener(m, event, channel_id) ==
    IF event \in DOMAIN m
    THEN Put(m, event, Del(m[event], channel_id))
    ELSE m

\* A lookup that forgets the key: the channels of every event, merged.
GetChannelsOfAnyEvent(m, event) ==
    [id \in UNION {DOMAIN m[e] : e \in DOMAIN m} |->
        m[CHOOSE e \in DOMAIN m : id \in DOMAIN m[e]][id]]

\* guard.get(&event): the channels of the event, none when the key is absent.
GetChannels(m, event) == IF event \in DOMAIN m THEN m[event] ELSE EmptyMap

\* ---------------------------------------------------------------- strings

DigitChars == <<"0", "1", "2", "3", "4", "5", "6", "7", "8", "9">>

Digit == {DigitChars[i] : i \in 1..Len(DigitChars)}

RECURSIVE Digits(_)
\* The decimal digits of a natural number, most significant first.
Digits(n) ==
    IF n < 10
    THEN <<DigitChars[n + 1]>>
    ELSE Digits(n \div 10) \o <<DigitChars[(n % 10) + 1]>>

\* status.to_string() of an OSStatus (i32): decimal, with a leading minus sign.
to_string(n) == IF n < 0 THEN <<"-">> \o Digits(-n) ELSE Digits(n)

\* Does text s contain text x as a contiguous substring (str::contains).
Contains(s, x) ==
    \E i \in 0..(Len(s) - Len(x)) : SubSeq(s, i + 1, i + Len(x)) = x

\* ----------------------------------------------------------------- errors

\* crate::error::ErrorResponse { code, message, data: () }
ErrorResponse(code, message) == [code |-> code, message |-> message]

\* A display that writes the separator after every code.
ErrorResponseDisplaySeparatorAlways(r) ==
    LET head == IF r.code # <<>> THEN <<"[">> \o r.code[1] \o <<"]">> \o <<" - ">> ELSE <<>>
        tail == IF r.message # <<>> THEN r.message[1] ELSE <<>>
    IN  head \o tail

\* impl Display for ErrorResponse
ErrorResponseDisplay(r) ==
    LET head == IF r.code # <<>>
                THEN <<"[">> \o r.code[1] \o <<"]">>
                     \o (IF r.message # <<>> THEN <<" - ">> ELSE <<>>)
                ELSE <<>>
        tail == IF r.message # <<>> THEN r.message[1] ELSE <<>>
    IN  head \o tail

\* Ok(v) of crate::Result<T>; v is <<>> for the unit value.
Ok(v) == [tag |-> "Ok", val |-> v, code |-> <<>>, message |-> <<>>]

\* Err(PluginInvokeError::InvokeRejected(response).into())
InvokeRejected(response) ==
    [tag |-> "InvokeRejected", val |-> <<>>,
     code |-> response.code, message |-> response.message]

\* Err(PluginInvokeError::CannotDeserializeResponse(e).into()); e is the text
\* of the serde_json error.
CannotDeserializeResponse(e) ==
    [tag |-> "CannotDeserializeResponse", val |-> <<>>,
     code |-> <<>>, message |-> <<e>>]

\* Err(ffi::FFIResult::Err(msg)), the error trigger hands back to Swift.
FFIErr(msg) ==
    [tag |-> "FFIResult::Err", val |-> <<>>, code |-> <<>>, message |-> <<msg>>]

\* No result yet: the call has not returned.
Pending == [tag |-> "Pending", val |-> <<>>, code |-> <<>>, message |-> <<>>]

\* Error::to_string(): #[error(transparent)] for InvokeRejected, and
\* "failed to deserialize response: {0}" for CannotDeserializeResponse.
ErrorDisplay(r) ==
    IF r.tag = "InvokeRejected"
    THEN ErrorResponseDisplay(ErrorResponse(r.code, r.message))
    ELSE IF r.tag = "CannotDeserializeResponse"
    THEN <<"failed to deserialize response: ">> \o r.message[1]
    ELSE r.message[1]

\* ----------------------------------------------------------- signature gate

\* The answers of the OS: the status of SecCode::copy_self, whether the code
\* reference it stored is null, and the status of SecCode::check_validity.
Signed == [copy_self |-> 0, null_ref |-> FALSE, check_validity |-> 0]

CodesignAnswers ==
    { Signed,
      [copy_self |-> -67062, null_ref |-> FALSE, check_validity |-> 0],
      [copy_self |-> 0, null_ref |-> TRUE, check_validity |-> 0],
      [copy_self |-> 0, null_ref |-> FALSE, check_validity |-> -67050] }

\* codesign::is_signature_valid()
is_signature_valid(os) ==
    IF os.copy_self # 0
    THEN InvokeRejected(ErrorResponse(
             <<to_string(os.copy_self)>>,
             <<(<<"Failed to get code reference: OSStatus ">>
                \o to_string(os.copy_self))>>))
    ELSE IF os.null_ref
    THEN InvokeRejected(ErrorResponse(
             <<(<<"nullCodeRef">>)>>,
             <<(<<"Failed to get code reference: null pointer">>)>>))
    ELSE IF os.check_validity # 0
    THEN InvokeRejected(ErrorResponse(
             <<to_string(os.check_validity)>>,
             <<(<<"Code signature validation failed: OSStatus ">>
                \o to_string(os.check_validity))>>))
    ELSE Ok(<<>>)

\* -------------------------------------------------------------- marshaling

\* Characters a native payload or error message is made of.
Chars == {"0", "7", "-", " ", "x"}

RECURSIVE TextsOfLen(_)
TextsOfLen(n) ==
    IF n = 0
    THEN {<<>>}
    ELSE {Append(s, c) : s \in TextsOfLen(n - 1), c \in Chars}

\* Every text of at most MaxLen characters.
Texts == UNION {TextsOfLen(n) : n \in 0..MaxLen}

\* Result<String, ffi::FFIResult>: Ok(json) or Err(FFIResult::Err(msg)).
Success(json) == [ok |-> TRUE, text |-> json]

Failure(msg) == [ok |-> FALSE, text |-> msg]

RECURSIVE SkipWhitespace(_, _)
\* Index of the first character at or after i that is not whitespace.
SkipWhitespace(s, i) ==
    IF i <= Len(s) /\ s[i] = " " THEN SkipWhitespace(s, i + 1) ELSE i

RECURSIVE DigitsEnd(_, _)
\* Index just after the run of digits that starts at i.
DigitsEnd(s, i) ==
    IF i <= Len(s) /\ s[i] \in Digit THEN DigitsEnd(s, i + 1) ELSE i

DigitValue(c) == CHOOSE d \in 0..9 : DigitChars[d + 1] = c

RECURSIVE Significand(_, _, _)
\* The number written by the digits s[i..j-1].
Significand(s, i, j) ==
    IF j <= i THEN 0 ELSE Significand(s, i, j - 1) * 10 + DigitValue(s[j - 1])

I32Max == 2147483647

I32Min == (-I32Max) - 1

\* serde_json::from_str::<i32>(&json): leading whitespace, an optional minus
\* sign, an integer without leading zeros, trailing whitespace, and nothing
\* else; -0 is a float and no i32; the value must fit an i32.
from_str(json) ==
    LET i   == SkipWhitespace(json, 1)
        neg == i <= Len(json) /\ json[i] = "-"
        k   == IF neg THEN i + 1 ELSE i
        j   == IF k <= Len(json) /\ json[k] = "0" THEN k + 1 ELSE DigitsEnd(json, k)
        n   == Significand(json, k, j)
    IN  IF i > Len(json)
        THEN [ok |-> FALSE, val |-> 0, e |-> <<"EOF while parsing a value">>]
        ELSE IF ~neg /\ json[i] \notin Digit
        THEN [ok |-> FALSE, val |-> 0, e |-> <<"expected value">>]
        ELSE IF k > Len(json)
        THEN [ok |-> FALSE, val |-> 0, e |-> <<"EOF while parsing a value">>]
        ELSE IF json[k] \notin Digit
        THEN [ok |-> FALSE, val |-> 0, e |-> <<"invalid number">>]
        ELSE IF json[k] = "0" /\ j <= Len(json) /\ json[j] \in Digit
        THEN [ok |-> FALSE, val |-> 0, e |-> <<"invalid number">>]
        ELSE IF neg /\ n = 0
        THEN [ok |-> FALSE, val |-> 0, e |-> <<"invalid type: floating point">>]
        ELSE IF (neg /\ -n < I32Min) \/ (~neg /\ n > I32Max)
        THEN [ok |-> FALSE, val |-> 0, e |-> <<"invalid value">>]
        ELSE IF SkipWhitespace(json, j) <= Len(json)
        THEN [ok |-> FALSE, val |-> 0, e |-> <<"trailing characters">>]
        ELSE [ok |-> TRUE, val |-> IF neg THEN -n ELSE n, e |-> <<>>]

\* A parse that replaces the message of the native module by a text of its own.
ParseGenericMessage(outcome) ==
    IF outcome.ok
    THEN LET r == from_str(outcome.text)
         IN  IF r.ok THEN Ok(<<r.val>>) ELSE CannotDeserializeResponse(r.e)
    ELSE InvokeRejected(ErrorResponse(<<>>, <<(<<"native call failed">>)>>))

\* A parse that unwraps the decoded value: a malformed payload is a panic.
ParseUnwrap(outcome) ==
    IF outcome.ok
    THEN LET r == from_str(outcome.text)
         IN  IF r.ok
             THEN Ok(<<r.val>>)
             ELSE [tag |-> "panic", val |-> <<>>, code |-> <<>>, message |-> <<r.e>>]
    ELSE InvokeRejected(ErrorResponse(<<>>, <<outcome.text>>))

\* ParseFfiResponse::parse::<T>
parse(outcome) ==
    IF outcome.ok
    THEN LET r == from_str(outcome.text)
         IN  IF r.ok THEN Ok(<<r.val>>) ELSE CannotDeserializeResponse(r.e)
    ELSE InvokeRejected(ErrorResponse(<<>>, <<outcome.text>>))

\* ------------------------------------------------------------------ calls

NoChannel == [id |-> 0, inst |-> "none"]

\* A thread that has made no call yet. pc tells where a call is: "ret" when it
\* has returned, with its result in result; prev is the Option that
\* HashMap::insert or HashMap::remove returned (the code drops it); outcome is
\* the Option of the native outcome; no alternates between 0 and 1 from
\* one call of the thread to its next.
Idle ==
    [pc |-> "idle", no |-> 0, op |-> "none", event |-> "none", handler |-> NoChannel,
     channel_id |-> 0, payload |-> "none", visited |-> {}, sent |-> <<>>,
     prev |-> <<>>, outcome |-> <<>>, result |-> Pending]

\* Thread t can make a call: it is in none, and the environment has calls left.
CanCall(t) == call[t].pc \in {"idle", "ret"} /\ started < MaxCalls

\* A get_or_init that runs its closure on every call and stores the new lock.
GetOrInitResets(cell) == [set |-> TRUE, map |-> EmptyMap]

\* OnceLock::get_or_init(|| RwLock::new(HashMap::new()))
get_or_init(cell) == IF cell.set THEN cell ELSE [set |-> TRUE, map |-> EmptyMap]

\* RwLock::write() returns once no writer and no reader holds the lock.
CanWrite == rwlock.writer = "none" /\ rwlock.readers = {}

\* RwLock::read() returns once no writer holds the lock.
CanRead == rwlock.writer = "none"

PoisonText == <<"poisoned lock: another task failed inside">>

\* The error register_listener and remove_listener make of a poisoned lock.
WriteLockError ==
    InvokeRejected(ErrorResponse(<<>>, <<(<<"Failed to acquire write lock: ">> \o PoisonText)>>))

\* The error remove_listener makes of a registry that was never established.
NotInitialized ==
    InvokeRejected(ErrorResponse(<<>>, <<(<<"Listeners not initialized">>)>>))

\* ------------------------------------------------------------- plugin init

\* init, line 155: LISTENERS.get_or_init(..).
InitOnce(t) ==
    /\ t \in Hosts
    /\ CanCall(t)
    /\ started' = started + 1
    /\ LISTENERS' = get_or_init(LISTENERS)
    /\ call' = [call EXCEPT ![t] = [Idle EXCEPT !.no = 1 - call[t].no, !.pc = "init_plugin", !.op = "init"]]
    /\ UNCHANGED <<rwlock, iap, codesign, nativeCalls>>

\* init, lines 157-160: Ok(Iap { plugin: ffi::IapPlugin::init_plugin(), .. }).
InitPlugin(t) ==
    /\ call[t].pc = "init_plugin"
    /\ iap' = TRUE
    /\ call' = [call EXCEPT ![t].pc = "ret", ![t].result = Ok(<<>>)]
    /\ UNCHANGED <<LISTENERS, rwlock, codesign, nativeCalls, started>>

\* ---------------------------------------------------------------- registry

\* A register_listener that begins with the signature gate, as the facade
\* operations do, and returns the gate's error.
RegisterGetOrInitGated(t, event, handler) ==
    /\ t \in Hosts
    /\ iap
    /\ CanCall(t)
    /\ started' = started + 1
    /\ LET gate == is_signature_valid(codesign)
       IN  IF gate.tag = "Ok"
           THEN /\ LISTENERS' = get_or_init(LISTENERS)
                /\ call' = [call EXCEPT ![t] =
                       [Idle EXCEPT !.no = 1 - call[t].no, !.pc = "reg_write",
                                    !.op = "register_listener",
                                    !.event = event, !.handler = handler]]
           ELSE /\ LISTENERS' = LISTENERS
                /\ call' = [call EXCEPT ![t] =
                       [Idle EXCEPT !.no = 1 - call[t].no, !.pc = "ret",
                                    !.op = "register_listener",
                                    !.event = event, !.handler = handler,
                                    !.result = gate]]
    /\ UNCHANGED <<rwlock, iap, codesign, nativeCalls>>

\* register_listener, line 243: LISTENERS.get_or_init(..).
RegisterGetOrInit(t, event, handler) ==
    /\ t \in Hosts
    /\ iap
    /\ CanCall(t)
    /\ started' = started + 1
    /\ LISTENERS' = get_or_init(LISTENERS)
    /\ call' = [call EXCEPT ![t] =
           [Idle EXCEPT !.no = 1 - call[t].no, !.pc = "reg_write", !.op = "register_listener",
                        !.event = event, !.handler = handler]]
    /\ UNCHANGED <<rwlock, iap, codesign, nativeCalls>>

\* register_listener, lines 244-252: listeners.write() returns once no thread
\* holds the lock; an error when the lock is poisoned.
RegisterWrite(t) ==
    /\ call[t].pc = "reg_write"
    /\ CanWrite
    /\ IF rwlock.poisoned
       THEN /\ call' = [call EXCEPT ![t].pc = "ret", ![t].result = WriteLockError]
            /\ UNCHANGED rwlock
       ELSE /\ call' = [call EXCEPT ![t].pc = "reg_insert"]
            /\ rwlock' = [rwlock EXCEPT !.writer = t]
    /\ UNCHANGED <<LISTENERS, iap, codesign, nativeCalls, started>>

\* register_listener, lines 253-257: the insert; Ok(()) drops the guard.
RegisterInsert(t) ==
    /\ call[t].pc = "reg_insert"
    /\ LISTENERS' = [LISTENERS EXCEPT
           !.map = InsertListener(LISTENERS.map, call[t].event, call[t].handler)]
    /\ rwlock' = [rwlock EXCEPT !.writer = "none"]
    /\ call' = [call EXCEPT
           ![t].pc = "ret",
           ![t].prev = Get(GetChannels(LISTENERS.map, call[t].event), call[t].handler.id),
           ![t].result = Ok(<<>>)]
    /\ UNCHANGED <<iap, codesign, nativeCalls, started>>

\* remove_listener, lines 261-269: LISTENERS.get(), an error when unset.
RemoveGet(t, event, channel_id) ==
    /\ t \in Hosts
    /\ iap
    /\ CanCall(t)
    /\ started' = started + 1
    /\ call' = [call EXCEPT ![t] =
           IF LISTENERS.set
           THEN [Idle EXCEPT !.no = 1 - call[t].no, !.pc = "rem_write", !.op = "remove_listener",
                             !.event = event, !.channel_id = channel_id]
           ELSE [Idle EXCEPT !.no = 1 - call[t].no, !.pc = "ret", !.op = "remove_listener",
                             !.event = event, !.channel_id = channel_id,
                             !.result = NotInitialized]]
    /\ UNCHANGED <<LISTENERS, rwlock, iap, codesign, nativeCalls>>

\* A write() that waits for writers only and returns while a reader holds the
\* lock.
RemoveWriteBesideReaders(t) ==
    /\ call[t].pc = "rem_write"
    /\ rwlock.writer = "none"
    /\ IF rwlock.poisoned
       THEN /\ call' = [call EXCEPT ![t].pc = "ret", ![t].result = WriteLockError]
            /\ UNCHANGED rwlock
       ELSE /\ call' = [call EXCEPT ![t].pc = "rem_remove"]
            /\ rwlock' = [rwlock EXCEPT !.writer = t]
    /\ UNCHANGED <<LISTENERS, iap, codesign, nativeCalls, started>>

\* remove_listener, lines 270-278: listeners.write() returns once no thread
\* holds the lock; an error when the lock is poisoned.
RemoveWrite(t) ==
    /\ call[t].pc = "rem_write"
    /\ CanWrite
    /\ IF rwlock.poisoned
       THEN /\ call' = [call EXCEPT ![t].pc = "ret", ![t].result = WriteLockError]
            /\ UNCHANGED rwlock
       ELSE /\ call' = [call EXCEPT ![t].pc = "rem_remove"]
            /\ rwlock' = [rwlock EXCEPT !.writer = t]
    /\ UNCHANGED <<LISTENERS, iap, codesign, nativeCalls, started>>

\* A removal that tears the registry down with its last subscriber.
RemoveRemoveTearsDown(t) ==
    /\ call[t].pc = "rem_remove"
    /\ LET map == RemoveListener(LISTENERS.map, call[t].event, call[t].channel_id)
       IN  LISTENERS' = IF \A e \in DOMAIN map : DOMAIN map[e] = {}
                        THEN [set |-> FALSE, map |-> EmptyMap]
                        ELSE [LISTENERS EXCEPT !.map = map]
    /\ rwlock' = [rwlock EXCEPT !.writer = "none"]
    /\ call' = [call EXCEPT
           ![t].pc = "ret",
           ![t].prev = Get(GetChannels(LISTENERS.map, call[t].event), call[t].channel_id),
           ![t].result = Ok(<<>>)]
    /\ UNCHANGED <<iap, codesign, nativeCalls, started>>

\* remove_listener, lines 279-282: the removal; Ok(()) drops the guard.
RemoveRemove(t) ==
    /\ call[t].pc = "rem_remove"
    /\ LISTENERS' = [LISTENERS EXCEPT
           !.map = RemoveListener(LISTENERS.map, call[t].event, call[t].channel_id)]
    /\ rwlock' = [rwlock EXCEPT !.writer = "none"]
    /\ call' = [call EXCEPT
           ![t].pc = "ret",
           ![t].prev = Get(GetChannels(LISTENERS.map, call[t].event), call[t].channel_id),
           ![t].result = Ok(<<>>)]
    /\ UNCHANGED <<iap, codesign, nativeCalls, started>>

\* ----------------------------------------------------------------- trigger

ReadLockError ==
    FFIErr(<<"Failed to acquire read lock: ">> \o PoisonText)

\* The channels of the call's event that its loop has not visited yet.
Remaining(c) ==
    {id \in DOMAIN GetChannels(LISTENERS.map, c.event) : id \notin c.visited}

\* A trigger that establishes the registry when it finds none (get_or_init in
\* place of get) and goes on to read it.
TriggerGetEstablishes(t, event, payload) ==
    /\ t \in Natives
    /\ CanCall(t)
    /\ started' = started + 1
    /\ LISTENERS' = get_or_init(LISTENERS)
    /\ call' = [call EXCEPT ![t] =
           [Idle EXCEPT !.no = 1 - call[t].no, !.pc = "trig_read", !.op = "trigger",
                        !.event = event, !.payload = payload]]
    /\ UNCHANGED <<rwlock, iap, codesign, nativeCalls>>

\* trigger, lines 135-137: LISTENERS.get(), an error when unset.
TriggerGet(t, event, payload) ==
    /\ t \in Natives
    /\ CanCall(t)
    /\ started' = started + 1
    /\ call' = [call EXCEPT ![t] =
           IF LISTENERS.set
           THEN [Idle EXCEPT !.no = 1 - call[t].no, !.pc = "trig_read", !.op = "trigger",
                             !.event = event, !.payload = payload]
           ELSE [Idle EXCEPT !.no = 1 - call[t].no, !.pc = "ret", !.op = "trigger",
                             !.event = event, !.payload = payload,
                             !.result = FFIErr(<<"Listeners not initialized">>)]]
    /\ UNCHANGED <<LISTENERS, rwlock, iap, codesign, nativeCalls>>

\* A read() that takes the guard out of the poison error and goes on.
TriggerReadIgnoresPoison(t) ==
    /\ call[t].pc = "trig_read"
    /\ CanRead
    /\ call' = [call EXCEPT ![t].pc = "trig_loop"]
    /\ rwlock' = [rwlock EXCEPT !.readers = @ \cup {t}]
    /\ UNCHANGED <<LISTENERS, iap, codesign, nativeCalls, started>>

\* trigger, lines 139-141: listeners.read() returns once no writer holds the
\* lock; an error when the lock is poisoned.
TriggerRead(t) ==
    /\ call[t].pc = "trig_read"
    /\ CanRead
    /\ IF rwlock.poisoned
       THEN /\ call' = [call EXCEPT ![t].pc = "ret", ![t].result = ReadLockError]
            /\ UNCHANGED rwlock
       ELSE /\ call' = [call EXCEPT ![t].pc = "trig_loop"]
            /\ rwlock' = [rwlock EXCEPT !.readers = @ \cup {t}]
    /\ UNCHANGED <<LISTENERS, iap, codesign, nativeCalls, started>>

\* A send whose failure is propagated with `?`: the call returns the error.
SendStepPropagates(c, channel, ok) ==
    IF ok
    THEN [c EXCEPT !.visited = @ \cup {channel.id},
                   !.sent = Append(@, [channel |-> channel, payload |-> c.payload, ok |-> ok])]
    ELSE [c EXCEPT !.visited = @ \cup {channel.id},
                   !.sent = Append(@, [channel |-> channel, payload |-> c.payload, ok |-> ok]),
                   !.pc = "ret",
                   !.result = FFIErr(<<"Failed to send">>)]

\* trigger, line 145: let _ = channel.send(payload.clone()); the outcome of the
\* send is discarded and the loop goes on.
SendStep(c, channel, ok) ==
    [c EXCEPT !.visited = @ \cup {channel.id},
              !.sent = Append(@, [channel |-> channel, payload |-> c.payload, ok |-> ok])]

\* trigger, lines 143-147: one iteration of the loop over channels.values();
\* the send succeeds or fails. The read guard is dropped when the call returns.
TriggerSend(t) ==
    /\ call[t].pc = "trig_loop"
    /\ \E id \in Remaining(call[t]) : \E ok \in BOOLEAN :
         LET channels == GetChannels(LISTENERS.map, call[t].event)
             next == SendStep(call[t], channels[id], ok)
         IN  /\ call' = [call EXCEPT ![t] = next]
             /\ rwlock' = IF next.pc = "ret"
                          THEN [rwlock EXCEPT !.readers = @ \ {t}]
                          ELSE rwlock
    /\ UNCHANGED <<LISTENERS, iap, codesign, nativeCalls, started>>

\* A trigger that reports an event nobody listens to as an error.
TriggerDoneErrOnEmpty(t) ==
    /\ call[t].pc = "trig_loop"
    /\ Remaining(call[t]) = {}
    /\ rwlock' = [rwlock EXCEPT !.readers = @ \ {t}]
    /\ call' = [call EXCEPT
           ![t].pc = "ret",
           ![t].result = IF call[t].sent = <<>>
                         THEN FFIErr(<<"No listeners">>)
                         ELSE Ok(<<>>)]
    /\ UNCHANGED <<LISTENERS, iap, codesign, nativeCalls, started>>

\* A trigger that may leave its loop after the first send (a break).
TriggerDoneAfterFirstSend(t) ==
    /\ call[t].pc = "trig_loop"
    /\ Remaining(call[t]) = {} \/ call[t].sent # <<>>
    /\ rwlock' = [rwlock EXCEPT !.readers = @ \ {t}]
    /\ call' = [call EXCEPT ![t].pc = "ret", ![t].result = Ok(<<>>)]
    /\ UNCHANGED <<LISTENERS, iap, codesign, nativeCalls, started>>

\* trigger, line 148: the loop is over (or the event has no entry); Ok(()).
TriggerDone(t) ==
    /\ call[t].pc = "trig_loop"
    /\ Remaining(call[t]) = {}
    /\ rwlock' = [rwlock EXCEPT !.readers = @ \ {t}]
    /\ call' = [call EXCEPT ![t].pc = "ret", ![t].result = Ok(<<>>)]
    /\ UNCHANGED <<LISTENERS, iap, codesign, nativeCalls, started>>

\* ------------------------------------------------------------------ facade

\* The operations of Iap that call the native module.
FacadeOps ==
    {"initialize", "get_products", "purchase", "restore_purchases",
     "acknowledge_purchase", "get_product_status"}

\* Does the operation begin with codesign::is_signature_valid()?; in
\* initialize the line is commented out.
Gated(op) == op # "initialize"

\* A facade operation, up to its native call: the signature gate, whose error
\* is returned at once.
Gate(t, op) ==
    /\ t \in Hosts
    /\ iap
    /\ CanCall(t)
    /\ started' = started + 1
    /\ LET gate == IF Gated(op) THEN is_signature_valid(codesign) ELSE Ok(<<>>)
       IN  call' = [call EXCEPT ![t] =
               IF gate.tag = "Ok"
               THEN [Idle EXCEPT !.no = 1 - call[t].no, !.pc = "native", !.op = op]
               ELSE [Idle EXCEPT !.no = 1 - call[t].no, !.pc = "ret", !.op = op, !.result = gate]]
    /\ UNCHANGED <<LISTENERS, rwlock, iap, codesign, nativeCalls>>

\* An invocation made with the registry's read lock taken and kept until the
\* native operation has answered.
InvokeHoldsReadLock(t) ==
    /\ call[t].pc = "native"
    /\ LISTENERS.set
    /\ CanRead
    /\ rwlock' = [rwlock EXCEPT !.readers = @ \cup {t}]
    /\ nativeCalls' = nativeCalls + 1
    /\ call' = [call EXCEPT ![t].pc = "await"]
    /\ UNCHANGED <<LISTENERS, iap, codesign, started>>

\* self.plugin.<operation>(..): the native operation is invoked; the async
\* ones suspend the task here.
Invoke(t) ==
    /\ call[t].pc = "native"
    /\ nativeCalls' = nativeCalls + 1
    /\ call' = [call EXCEPT ![t].pc = "await"]
    /\ UNCHANGED <<LISTENERS, rwlock, iap, codesign, started>>

\* A return that invokes the native operation again when it answers with a
\* failure.
NativeReturnRetries(t, outcomes) ==
    /\ call[t].pc = "await"
    /\ \E o \in outcomes :
         call' = IF o.ok
                 THEN [call EXCEPT ![t].pc = "ret", ![t].outcome = <<o>>,
                                   ![t].result = parse(o)]
                 ELSE [call EXCEPT ![t].pc = "native"]
    /\ UNCHANGED <<LISTENERS, rwlock, iap, codesign, nativeCalls, started>>

\* The native operation completes with one of the given outcomes and the
\* task resumes: .parse().
NativeReturn(t, outcomes) ==
    /\ call[t].pc = "await"
    /\ \E o \in outcomes :
         call' = [call EXCEPT ![t].pc = "ret", ![t].outcome = <<o>>, ![t].result = parse(o)]
    /\ UNCHANGED <<LISTENERS, rwlock, iap, codesign, nativeCalls, started>>

\* ------------------------------------------- platforms without native module

\* The operations of Iap in desktop.rs.
DesktopOps ==
    {"initialize", "get_products", "purchase", "restore_purchases",
     "get_purchase_history", "acknowledge_purchase", "get_product_status"}

\* The arguments an operation is called with; initialize and
\* get_purchase_history take none.
DesktopInputs(op) ==
    IF op \in {"initialize", "get_purchase_history"} THEN {"none"} ELSE Payloads

\* Err(crate::Error::from(std::io::Error::other(msg)))
Io(msg) == [tag |-> "Io", val |-> <<>>, code |-> <<>>, message |-> <<msg>>]

\* desktop.rs, init: Ok(Iap(app.clone())).
DesktopInit(t) ==
    /\ t \in Hosts
    /\ CanCall(t)
    /\ started' = started + 1
    /\ iap' = TRUE
    /\ call' = [call EXCEPT ![t] =
           [Idle EXCEPT !.no = 1 - call[t].no, !.pc = "ret", !.op = "init",
                        !.result = Ok(<<>>)]]
    /\ UNCHANGED <<LISTENERS, rwlock, codesign, nativeCalls>>

\* An operation that answers initialize with success and no value.
DesktopOpStubbedInitialize(t, op, input) ==
    /\ t \in Hosts
    /\ iap
    /\ CanCall(t)
    /\ started' = started + 1
    /\ call' = [call EXCEPT ![t] =
           [Idle EXCEPT !.no = 1 - call[t].no, !.pc = "ret", !.op = op,
                        !.payload = input,
                        !.result = IF op = "initialize"
                                   THEN Ok(<<>>)
                                   ELSE Io(<<"IAP is not supported on this platform">>)]]
    /\ UNCHANGED <<LISTENERS, rwlock, iap, codesign, nativeCalls>>

\* desktop.rs, every method of Iap: the arguments are ignored and the result is
\* Err(io::Error::other("IAP is not supported on this platform")).
DesktopOp(t, op, input) ==
    /\ t \in Hosts
    /\ iap
    /\ CanCall(t)
    /\ started' = started + 1
    /\ call' = [call EXCEPT ![t] =
           [Idle EXCEPT !.no = 1 - call[t].no, !.pc = "ret", !.op = op,
                        !.payload = input,
                        !.result = Io(<<"IAP is not supported on this platform">>)]]
    /\ UNCHANGED <<LISTENERS, rwlock, iap, codesign, nativeCalls>>

\* ------------------------------------------------- handlers that call back

\* Channels made with Channel::new(closure) whose closure, run by send on the
\* sending thread, calls remove_listener for its own event and id (a listener
\* that unsubscribes on its first event). The channels of Channels hand the
\* payload to the webview, whose handler runs later, on a host task.
Closures == [id : Ids, inst : {"closure"}]

\* trigger, line 145, for a channel of Closures: send runs the closure, which
\* calls remove_listener (lines 260-270): LISTENERS.get() succeeds and the
\* thread reaches listeners.write() with the read guard of trigger still held.
SendReentrant(t) ==
    /\ call[t].pc = "trig_loop"
    /\ \E id \in Remaining(call[t]) :
         LET channels == GetChannels(LISTENERS.map, call[t].event)
         IN  /\ channels[id] \in Closures
             /\ call' = [call EXCEPT ![t].pc = "handler_write",
                                     ![t].channel_id = id,
                                     ![t].visited = @ \cup {id}]
    /\ UNCHANGED <<LISTENERS, rwlock, iap, codesign, nativeCalls, started>>

\* listeners.write() on a thread that holds a read guard of the same lock
\* blocks forever or panics (std::sync::RwLock::write, "might panic"): this is
\* the panic, which leaves trigger without a result; blocking is no step.
HandlerWritePanics(t) ==
    /\ call[t].pc = "handler_write"
    /\ t \in rwlock.readers
    /\ call' = [call EXCEPT ![t].pc = "panic"]
    /\ rwlock' = [rwlock EXCEPT !.readers = @ \ {t}]
    /\ UNCHANGED <<LISTENERS, iap, codesign, nativeCalls, started>>

\* trigger, line 145, for a channel of Channels.
TriggerSendIpc(t) ==
    /\ TriggerSend(t)
    /\ call'[t].sent[Len(call'[t].sent)].channel \in Channels

\* ------------------------------------------------------------ lock poisoning

\* register_listener, lines 253-256, and remove_listener, lines 279-281: a
\* panic while the write guard is held, in the drop of the channel that insert
\* replaced or remove took out (a closure's captured value may panic in its
\* drop) or inside the map operation. The unwinding drops the guard, which
\* poisons the lock; the map was changed already or was not; the call has no
\* result.
WriterPanics(t) ==
    /\ call[t].pc \in {"reg_insert", "rem_remove"}
    /\ rwlock.writer = t
    /\ \E changed \in BOOLEAN :
         LISTENERS' =
            IF ~changed
            THEN LISTENERS
            ELSE IF call[t].pc = "reg_insert"
            THEN [LISTENERS EXCEPT
                    !.map = InsertListener(LISTENERS.map, call[t].event, call[t].handler)]
            ELSE [LISTENERS EXCEPT
                    !.map = RemoveListener(LISTENERS.map, call[t].event, call[t].channel_id)]
    /\ rwlock' = [rwlock EXCEPT !.writer = "none", !.poisoned = TRUE]
    /\ call' = [call EXCEPT ![t].pc = "panic"]
    /\ UNCHANGED <<iap, codesign, nativeCalls, started>>

\* ------------------------------------------------------- display of errors

\* The texts of fewer than MaxLen characters.
ShortTexts == UNION {TextsOfLen(n) : n \in 0..(MaxLen - 1)}

\* Option<String> over the short texts.
OptionalTexts == {<<>>} \cup {<<s>> : s \in ShortTexts}

\* Every ErrorResponse whose code and message are optional short texts.
ErrorResponses == {ErrorResponse(c, m) : c \in OptionalTexts, m \in OptionalTexts}

\* A host task holds an ErrorResponse that it is about to format.
DisplayInit ==
    /\ LISTENERS = [set |-> FALSE, map |-> EmptyMap]
    /\ rwlock = [writer |-> "none", readers |-> {}, poisoned |-> FALSE]
    /\ iap = FALSE
    /\ codesign = Signed
    /\ nativeCalls = 0
    /\ started = 0
    /\ \E r \in ErrorResponses :
         call = [t \in Threads |->
                   IF t = "h1"
                   THEN [Idle EXCEPT !.pc = "fmt", !.op = "to_string", !.payload = r]
                   ELSE Idle]

\* response.to_string(), through impl Display for ErrorResponse.
ToString(t) ==
    /\ call[t].pc = "fmt"
    /\ call' = [call EXCEPT ![t].pc = "ret",
                            ![t].result = Ok(<<ErrorResponseDisplay(call[t].payload)>>)]
    /\ UNCHANGED <<LISTENERS, rwlock, iap, codesign, nativeCalls, started>>

\* ---------------------------------------------------------- specifications

\* Every outcome of at most MaxLen characters.
AllOutcomes == {Success(s) : s \in Texts} \cup {Failure(s) : s \in Texts}

\* The process starts: LISTENERS is unset, no Iap exists and no call was made.
Start ==
    /\ LISTENERS = [set |-> FALSE, map |-> EmptyMap]
    /\ rwlock = [writer |-> "none", readers |-> {}, poisoned |-> FALSE]
    /\ iap = FALSE
    /\ nativeCalls = 0
    /\ started = 0
    /\ call = [t \in Threads |-> Idle]

\* The process starts with a binary whose signature is valid.
Init == Start /\ codesign = Signed

\* The process starts, and the OS has one of its answers about the signature
\* of the running binary.
FacadeInit == Start /\ codesign \in CodesignAnswers

\* Plugin init, the registry and trigger: two host tasks and the native thread.
RegistryNext ==
    \E t \in {"h1", "h2", "n1"} :
        \/ InitOnce(t)
        \/ InitPlugin(t)
        \/ \E e \in Events, h \in Channels : RegisterGetOrInit(t, e, h)
        \/ RegisterWrite(t)
        \/ RegisterInsert(t)
        \/ \E e \in Events, id \in Ids : RemoveGet(t, e, id)
        \/ RemoveWrite(t)
        \/ RemoveRemove(t)
        \/ \E e \in Events, p \in Payloads : TriggerGet(t, e, p)
        \/ TriggerRead(t)
        \/ TriggerSend(t)
        \/ TriggerDone(t)

\* Plugin init and the facade operations.
FacadeNext ==
    \E t \in {"h1"} :
        \/ InitOnce(t)
        \/ InitPlugin(t)
        \/ \E op \in FacadeOps : Gate(t, op)
        \/ Invoke(t)
        \/ NativeReturn(t, AllOutcomes)

\* The listener registry and the event relay: host tasks that call init,
\* register_listener and remove_listener, and a native thread that calls
\* trigger, interleaved.
Spec == Init /\ [][RegistryNext]_vars

\* The state after init has returned: the registry is established and empty,
\* and an Iap exists.
ConcurrentInit ==
    /\ LISTENERS = [set |-> TRUE, map |-> EmptyMap]
    /\ rwlock = [writer |-> "none", readers |-> {}, poisoned |-> FALSE]
    /\ iap = TRUE
    /\ codesign = Signed
    /\ nativeCalls = 0
    /\ started = 0
    /\ call = [t \in Threads |-> Idle]

\* A host task makes its one call: register_listener for a subscriber (event
\* and id) that no other task registers.
RegisterDistinct(t, event, handler) ==
    /\ call[t].pc = "idle"
    /\ \A u \in Hosts \ {t} :
         call[u].op = "register_listener"
         => <<call[u].event, call[u].handler.id>> # <<event, handler.id>>
    /\ RegisterGetOrInit(t, event, handler)

\* Every host task registers one subscriber while the native thread triggers.
ConcurrentNext ==
    \E t \in Hosts \cup {"n1"} :
        \/ \E e \in Events, h \in Channels : RegisterDistinct(t, e, h)
        \/ RegisterWrite(t)
        \/ RegisterInsert(t)
        \/ \E e \in Events, p \in Payloads : TriggerGet(t, e, p)
        \/ TriggerRead(t)
        \/ TriggerSend(t)
        \/ TriggerDone(t)

\* Concurrent registration: after init, the host tasks register distinct
\* subscribers, in any interleaving with each other and with trigger.
ConcurrentSpec == ConcurrentInit /\ [][ConcurrentNext]_vars

\* The facade: a host task that calls init and the operations of Iap, and a
\* native module that answers with every outcome of the bounded length.
FacadeSpec == FacadeInit /\ [][FacadeNext]_vars

\* Two outcomes of the native module, a success and a failure.
SomeOutcomes == {Success(<<"7">>), Failure(<<"x">>)}

\* Plugin init, the facade, the registry and trigger together: host tasks call
\* any operation of Iap, the native thread calls trigger.
MixedNext ==
    \/ \E t \in {"h1"} :
          \/ InitOnce(t)
          \/ InitPlugin(t)
          \/ \E op \in FacadeOps : Gate(t, op)
          \/ Invoke(t)
          \/ NativeReturn(t, SomeOutcomes)
    \/ \E t \in {"h2", "n1"} :
          \/ \E e \in Events, h \in Channels : RegisterGetOrInit(t, e, h)
          \/ RegisterWrite(t)
          \/ RegisterInsert(t)
          \/ \E e \in Events, id \in Ids : RemoveGet(t, e, id)
          \/ RemoveWrite(t)
          \/ RemoveRemove(t)
          \/ \E e \in Events, p \in Payloads : TriggerGet(t, e, p)
          \/ TriggerRead(t)
          \/ TriggerSend(t)
          \/ TriggerDone(t)

\* The whole bridge: facade calls, the registry and trigger in use together,
\* whatever the OS says of the signature.
MixedSpec == FacadeInit /\ [][MixedNext]_vars

\* Facade calls that wait for the native module while the registry is in use:
\* two host tasks call facade operations, a third registers and removes
\* listeners of one event, the native thread calls trigger for it.
SuspendedNext ==
    \/ \E t \in {"h1", "h3"} :
          \/ \E op \in {"get_products", "purchase"} : Gate(t, op)
          \/ Invoke(t)
          \/ NativeReturn(t, SomeOutcomes)
    \/ \E t \in {"h2", "n1"} :
          \/ \E id \in Ids :
                RegisterGetOrInit(t, "purchaseUpdated", [id |-> id, inst |-> "a"])
          \/ RegisterWrite(t)
          \/ RegisterInsert(t)
          \/ \E id \in Ids : RemoveGet(t, "purchaseUpdated", id)
          \/ RemoveWrite(t)
          \/ RemoveRemove(t)
          \/ TriggerGet(t, "purchaseUpdated", "p1")
          \/ TriggerRead(t)
          \/ TriggerSend(t)
          \/ TriggerDone(t)

\* The host tasks and the native thread are scheduled: a registry or trigger
\* call that can take its next step takes it. The native module need not
\* answer a facade call, and nobody has to start a call.
RegistryFairness ==
    \A t \in Threads :
        /\ WF_vars(RegisterWrite(t))
        /\ WF_vars(RegisterInsert(t))
        /\ WF_vars(RemoveWrite(t))
        /\ WF_vars(RemoveRemove(t))
        /\ WF_vars(TriggerRead(t))
        /\ WF_vars(TriggerSend(t))
        /\ WF_vars(TriggerDone(t))

\* After init: the facade in use, with answers of the native module that may
\* never come, beside the registry and trigger.
SuspendedSpec == ConcurrentInit /\ [][SuspendedNext]_vars /\ RegistryFairness

\* A platform without native module: host tasks call init and the operations.
DesktopNext ==
    \E t \in Hosts :
        \/ DesktopInit(t)
        \/ \E op \in DesktopOps : \E input \in DesktopInputs(op) : DesktopOp(t, op, input)

\* The bridge of desktop.rs.
DesktopSpec == Init /\ [][DesktopNext]_vars

\* The registries in which, per event, each id is registered with channel "a"
\* or not at all: states that init and calls of register_listener lead to.
OrderRegistries ==
    { [e \in Events |-> [id \in S[e] |-> [id |-> id, inst |-> "a"]]] :
        S \in [Events -> SUBSET Ids] }

\* The state after init and some registrations.
OrderInit ==
    /\ LISTENERS \in {[set |-> TRUE, map |-> m] : m \in OrderRegistries}
    /\ rwlock = [writer |-> "none", readers |-> {}, poisoned |-> FALSE]
    /\ iap = TRUE
    /\ codesign = Signed
    /\ nativeCalls = 0
    /\ started = 0
    /\ call = [t \in Threads |-> Idle]

\* The native module serializes its callbacks: a thread of it calls trigger
\* only when no other thread of it is inside trigger. Each thread makes one
\* callback, so that the calls made stay on record.
SerialTriggerGet(t, event, payload) ==
    /\ call[t].pc = "idle"
    /\ \A u \in Natives \ {t} : call[u].pc \in {"idle", "ret"}
    /\ TriggerGet(t, event, payload)

\* Callbacks of a native module that serializes them, for subscribers that
\* stay registered: nobody calls register_listener or remove_listener.
OrderNext ==
    \E t \in Natives :
        \/ \E e \in Events, p \in Payloads : SerialTriggerGet(t, e, p)
        \/ TriggerRead(t)
        \/ TriggerSend(t)
        \/ TriggerDone(t)

\* The event relay under serialized callbacks.
OrderSpec == OrderInit /\ [][OrderNext]_vars

\* After init: a host task registers and removes listeners of one event, some
\* of them closures that call back into the registry, and the native thread
\* calls trigger.
ReentrantNext ==
    \/ \E t \in {"h1"} :
          \/ \E h \in [id : Ids, inst : {"a"}] \cup Closures :
                RegisterGetOrInit(t, "purchaseUpdated", h)
          \/ RegisterWrite(t)
          \/ RegisterInsert(t)
          \/ \E id \in Ids : RemoveGet(t, "purchaseUpdated", id)
          \/ RemoveWrite(t)
          \/ RemoveRemove(t)
    \/ \E t \in {"n1"} :
          \/ \E p \in Payloads : TriggerGet(t, "purchaseUpdated", p)
          \/ TriggerRead(t)
          \/ TriggerSendIpc(t)
          \/ SendReentrant(t)
          \/ HandlerWritePanics(t)
          \/ TriggerDone(t)

\* The registry and the relay with delivery handlers that call back.
ReentrantSpec == ConcurrentInit /\ [][ReentrantNext]_vars

\* After init: two host tasks register and remove listeners of one event, a
\* call of theirs may panic under the write guard, and the native thread calls
\* trigger for that event.
PoisonNext ==
    \/ \E t \in {"h1", "h2"} :
          \/ \E id \in Ids :
                RegisterGetOrInit(t, "purchaseUpdated", [id |-> id, inst |-> "a"])
          \/ RegisterWrite(t)
          \/ RegisterInsert(t)
          \/ \E id \in Ids : RemoveGet(t, "purchaseUpdated", id)
          \/ RemoveWrite(t)
          \/ RemoveRemove(t)
          \/ WriterPanics(t)
    \/ \E t \in {"n1"} :
          \/ \E p \in Payloads : TriggerGet(t, "purchaseUpdated", p)
          \/ TriggerRead(t)
          \/ TriggerSend(t)
          \/ TriggerDone(t)

\* The registry and the relay with a lock that a panic may poison.
PoisonSpec == ConcurrentInit /\ [][PoisonNext]_vars

\* The host task formats the ErrorResponse it holds.
DisplayNext == \E t \in {"h1"} : ToString(t)

\* The display string of every ErrorResponse over the short texts.
DisplaySpec == DisplayInit /\ [][DisplayNext]_vars

\* After init: one host task registers and removes listeners of both events
\* and the native thread calls trigger.
KeyedNext ==
    \/ \E t \in {"h1"} :
          \/ \E e \in Events, id \in Ids :
                RegisterGetOrInit(t, e, [id |-> id, inst |-> "a"])
          \/ RegisterWrite(t)
          \/ RegisterInsert(t)
          \/ \E e \in Events, id \in Ids : RemoveGet(t, e, id)
          \/ RemoveWrite(t)
          \/ RemoveRemove(t)
    \/ \E t \in {"n1"} :
          \/ \E e \in Events : TriggerGet(t, e, "p1")
          \/ TriggerRead(t)
          \/ TriggerSend(t)
          \/ TriggerDone(t)

\* The registry of two events and the relay, after init.
KeyedSpec == ConcurrentInit /\ [][KeyedNext]_vars

\* The state after init and some registrations for one event.
AtomicInit ==
    /\ OrderInit
    /\ DOMAIN LISTENERS.map["productsUpdated"] = {}

\* After init and some registrations (channels "a"): one host task removes a
\* listener of an event, another registers a new channel ("b") for it, and the
\* native thread calls trigger for it, again and again. A channel "a" that has
\* left the registry is never registered again.
AtomicNext ==
    \/ \E t \in {"h1"} :
          \/ \E id \in Ids : call[t].pc = "idle" /\ RemoveGet(t, "purchaseUpdated", id)
          \/ RemoveWrite(t)
          \/ RemoveRemove(t)
    \/ \E t \in {"h2"} :
          \/ \E id \in Ids :
                /\ call[t].pc = "idle"
                /\ RegisterGetOrInit(t, "purchaseUpdated", [id |-> id, inst |-> "b"])
          \/ RegisterWrite(t)
          \/ RegisterInsert(t)
    \/ \E t \in {"n1"} :
          \/ TriggerGet(t, "purchaseUpdated", "p1")
          \/ TriggerRead(t)
          \/ TriggerSend(t)
          \/ TriggerDone(t)

\* The relay running concurrently with writers of the registry.
AtomicSpec == AtomicInit /\ [][AtomicNext]_vars

\* From the start of the process: one host task calls init and registers
\* listeners, and the threads of the native module call trigger at any time,
\* before init as well.
UninitNext ==
    \/ \E t \in {"h1"} :
          \/ InitOnce(t)
          \/ InitPlugin(t)
          \/ \E e \in Events, id \in Ids :
                RegisterGetOrInit(t, e, [id |-> id, inst |-> "a"])
          \/ RegisterWrite(t)
          \/ RegisterInsert(t)
    \/ \E t \in Natives :
          \/ \E e \in Events : TriggerGet(t, e, "p1")
          \/ TriggerRead(t)
          \/ TriggerSend(t)
          \/ TriggerDone(t)

\* The relay around the initialisation of the plugin.
UninitSpec == Init /\ [][UninitNext]_vars

\* ------------------------------------------------------------- properties

\* The channels registered for event e, read off the registry.
Subscribers(e) ==
    IF LISTENERS.set /\ e \in DOMAIN LISTENERS.map
    THEN {LISTENERS.map[e][id] : id \in DOMAIN LISTENERS.map[e]}
    ELSE {}

\* The channels call c has sent to.
SentTo(c) == {c.sent[i].channel : i \in 1..Len(c.sent)}

\* Thread t's call returns in this step.
Returns(t) ==
    /\ call'[t].pc = "ret"
    /\ call[t].pc # "ret" \/ call'[t].no # call[t].no

\* Call c sent its payload once to each channel of subs, and nothing else.
SentOnceToEach(c, subs) ==
    /\ SentTo(c) = subs
    /\ Len(c.sent) = Cardinality(subs)
    /\ \A i \in 1..Len(c.sent) : c.sent[i].payload = c.payload

\* C1: when trigger(E, P) returns, it has sent P exactly once to every channel
\* registered for E at that moment and to no other channel, and if E has a
\* subscriber the call returns Ok (the event is not dropped).
C1_TriggerSendsToExactlyTheSubscribers ==
    [][\A t \in Natives :
          (Returns(t) /\ call'[t].op = "trigger")
          => /\ SentOnceToEach(call'[t], Subscribers(call'[t].event))
             /\ Subscribers(call'[t].event) # {} => call'[t].result.tag = "Ok"]_vars

\* A trigger has returned after sending to a subscriber of its event while
\* another event has a subscriber that it did not send to.
C1_Witness ==
    \E t \in Natives :
        /\ call[t].pc = "ret"
        /\ call[t].op = "trigger"
        /\ call[t].sent # <<>>
        /\ \E e \in Events \ {call[t].event} :
             \E ch \in Subscribers(e) : ch \notin SentTo(call[t])

\* The ids registered for event e, read off the registry.
SubscriberIds(e) == {ch.id : ch \in Subscribers(e)}

\* C2: when remove_listener(event, id) returns and (event, id) was not
\* registered, it returns Ok and the registry is what it was.
C2_RemoveOfUnregisteredIsNoOp ==
    [][\A t \in Hosts :
          (/\ Returns(t)
           /\ call'[t].op = "remove_listener"
           /\ call'[t].channel_id \notin SubscriberIds(call'[t].event))
          => /\ call'[t].result.tag = "Ok"
             /\ LISTENERS' = LISTENERS]_vars

\* A remove_listener that found no entry for its id has returned, and its
\* event has a subscriber.
C2_Witness ==
    \E t \in Hosts :
        /\ call[t].pc = "ret"
        /\ call[t].op = "remove_listener"
        /\ call[t].prev = <<>>
        /\ call[t].result.tag = "Ok"
        /\ Subscribers(call[t].event) # {}

\* C3 as stated: in every reachable state, when trigger(E, P) returns and E
\* has no subscriber, it returns Ok, has sent nothing and the registry is what
\* it was.
C3_Original ==
    [][\A t \in Natives :
          (/\ Returns(t)
           /\ call'[t].op = "trigger"
           /\ Subscribers(call'[t].event) = {})
          => /\ call'[t].result.tag = "Ok"
             /\ call'[t].sent = <<>>
             /\ LISTENERS' = LISTENERS]_vars

\* C3, amended: once the registry is established, when trigger(E, P) returns
\* and E has no subscriber, it returns Ok and has sent nothing; and no step of
\* a trigger changes the registry.
C3_TriggerWithoutSubscribersIsNoOp ==
    [][\A t \in Natives :
          /\ (/\ Returns(t)
              /\ call'[t].op = "trigger"
              /\ LISTENERS.set
              /\ Subscribers(call'[t].event) = {})
             => /\ call'[t].result.tag = "Ok"
                /\ call'[t].sent = <<>>
          /\ call'[t] # call[t] => LISTENERS' = LISTENERS]_vars

\* A trigger for an event without subscribers has returned Ok, having sent
\* nothing, while another event has a subscriber.
C3_Witness ==
    \E t \in Natives :
        /\ call[t].pc = "ret"
        /\ call[t].op = "trigger"
        /\ call[t].result.tag = "Ok"
        /\ call[t].sent = <<>>
        /\ Subscribers(call[t].event) = {}
        /\ \E e \in Events : Subscribers(e) # {}

\* The gate reports the signature of the running binary invalid.
SignatureInvalid == is_signature_valid(codesign).tag # "Ok"

\* C4: when the signature gate reports invalid, no facade operation invokes
\* the native module (the count of native invocations stays zero), and each
\* returns the error of the gate.
C4_InvalidSignatureBlocksNative ==
    SignatureInvalid
    => /\ nativeCalls = 0
       /\ \A t \in Hosts :
            (call[t].pc = "ret" /\ call[t].op \in FacadeOps)
            => call[t].result = is_signature_valid(codesign)

\* C5: when a facade operation returns after the native operation answered
\* Failure(x), its result is InvokeRejected with no code and the message x,
\* and the display string of the error contains x.
C5_FailureIsPassedThrough ==
    \A t \in Hosts :
        (/\ call[t].pc = "ret"
         /\ call[t].op \in FacadeOps
         /\ call[t].outcome # <<>>
         /\ ~call[t].outcome[1].ok)
        => LET x == call[t].outcome[1].text
               r == call[t].result
           IN  /\ r.tag = "InvokeRejected"
               /\ r.code = <<>>
               /\ r.message = <<x>>
               /\ Contains(ErrorDisplay(r), x)

\* A facade operation has returned after the native operation failed with a
\* message that is not empty.
C5_Witness ==
    \E t \in Hosts :
        /\ call[t].pc = "ret"
        /\ call[t].op \in FacadeOps
        /\ call[t].outcome # <<>>
        /\ ~call[t].outcome[1].ok
        /\ call[t].outcome[1].text # <<>>

RECURSIVE TrimLeft(_)
TrimLeft(s) == IF s # <<>> /\ Head(s) = " " THEN TrimLeft(Tail(s)) ELSE s

RECURSIVE TrimRight(_)
TrimRight(s) ==
    IF s # <<>> /\ s[Len(s)] = " " THEN TrimRight(SubSeq(s, 1, Len(s) - 1)) ELSE s

\* The text without the whitespace around it.
Trim(s) == TrimRight(TrimLeft(s))

\* The integers whose decimal text may fit a payload, each with its JSON text.
Encodings == {<<to_string(v), v>> : v \in (-(10 ^ MaxLen))..(10 ^ MaxLen)}

EncodedTexts == {e[1] : e \in Encodings}

\* C6: when parse is given Success(payload), it returns Ok(v) if the payload
\* is the JSON text of the integer v (with whitespace around it, if any), and
\* the CannotDeserializeResponse error for any other payload, never anything
\* else; and the step that parses changes nothing but the call's own result.
C6_ParseDecodesOrReportsError ==
    [][\A t \in Hosts :
          (call[t].pc = "await" /\ call'[t].pc = "ret")
          => /\ UNCHANGED <<LISTENERS, rwlock, iap, codesign, nativeCalls>>
             /\ call'[t].outcome[1].ok
                => LET u == Trim(call'[t].outcome[1].text)
                       r == call'[t].result
                   IN  IF u \in EncodedTexts
                       THEN r.tag = "Ok" /\ Len(r.val) = 1 /\ <<u, r.val[1]>> \in Encodings
                       ELSE r.tag = "CannotDeserializeResponse"]_vars

\* A facade operation has returned the integer decoded from a payload that
\* has whitespace before a negative number.
C6_Witness ==
    \E t \in Hosts :
        /\ call[t].pc = "ret"
        /\ call[t].outcome # <<>>
        /\ call[t].outcome[1].ok
        /\ call[t].outcome[1].text # <<>>
        /\ call[t].outcome[1].text[1] = " "
        /\ call[t].result.tag = "Ok"
        /\ call[t].result.val[1] < 0

\* A facade operation has returned the CannotDeserializeResponse error.
C6_WitnessMalformed ==
    \E t \in Hosts :
        /\ call[t].pc = "ret"
        /\ call[t].outcome # <<>>
        /\ call[t].outcome[1].ok
        /\ call[t].result.tag = "CannotDeserializeResponse"

\* C7: when trigger(E, P) returns while every host task that has called
\* register_listener has returned from it, the trigger has sent P exactly once
\* to the handler of each of these tasks that registered for E, and to nothing
\* else, and returns Ok: no registration is lost, none is served twice.
C7_ConcurrentRegistrationsAreAllServed ==
    [][\A n \in Natives :
          (/\ Returns(n)
           /\ call'[n].op = "trigger"
           /\ \A h \in Hosts : call[h].pc \in {"idle", "ret"})
          => /\ call'[n].result.tag = "Ok"
             /\ SentOnceToEach(call'[n],
                    {call[h].handler : h \in {u \in Hosts :
                         /\ call[u].pc = "ret"
                         /\ call[u].event = call'[n].event}})]_vars

\* Every host task has registered, over both events, and a trigger has
\* returned after sending to two subscribers.
C7_Witness ==
    \E n \in Natives :
        /\ call[n].pc = "ret"
        /\ call[n].op = "trigger"
        /\ Len(call[n].sent) >= 2
        /\ \A h \in Hosts : call[h].pc = "ret"
        /\ \E h \in Hosts : call[h].event # call[n].event

\* C8: the insert of register_listener(E, h) leaves the entry (E, h.id)
\* holding h, whatever it held before, and adds no other entry; and when a
\* trigger of E returns it has sent at most once per id, each time to the
\* handler the registry holds for that id.
C8_RegisterInsertsOrReplaces ==
    [][/\ \A t \in Hosts :
            (call[t].pc = "reg_insert" /\ call'[t].pc = "ret")
            => LET e == call[t].event
                   h == call[t].handler
               IN  /\ e \in DOMAIN LISTENERS'.map
                   /\ h.id \in DOMAIN LISTENERS'.map[e]
                   /\ LISTENERS'.map[e][h.id] = h
                   /\ DOMAIN LISTENERS'.map[e] = SubscriberIds(e) \cup {h.id}
       /\ \A n \in Natives :
            (Returns(n) /\ call'[n].op = "trigger")
            => \A i, j \in 1..Len(call'[n].sent) :
                 LET ch == call'[n].sent[i].channel
                 IN  /\ ch \in Subscribers(call'[n].event)
                     /\ call'[n].sent[j].channel.id = ch.id => i = j]_vars

\* A register_listener has replaced another handler of the same id, and a
\* trigger of the event has returned after sending to the new handler only.
C8_Witness ==
    \E t \in Hosts, n \in Natives :
        /\ call[t].pc = "ret"
        /\ call[t].op = "register_listener"
        /\ call[t].prev # <<>>
        /\ call[t].prev[1] # call[t].handler
        /\ call[n].pc = "ret"
        /\ call[n].op = "trigger"
        /\ call[n].event = call[t].event
        /\ SentTo(call[n]) = {call[t].handler}

\* C9: when a trigger returns after a send of it failed, it returns Ok and
\* has attempted a send to every subscriber of its event.
C9_FailedSendStopsNothing ==
    [][\A n \in Natives :
          (/\ Returns(n)
           /\ call'[n].op = "trigger"
           /\ \E i \in 1..Len(call'[n].sent) : ~call'[n].sent[i].ok)
          => /\ call'[n].result.tag = "Ok"
             /\ Subscribers(call'[n].event) \subseteq SentTo(call'[n])]_vars

\* A trigger has returned Ok after a failed send that was followed by a
\* successful send to another subscriber.
C9_Witness ==
    \E n \in Natives :
        /\ call[n].pc = "ret"
        /\ call[n].op = "trigger"
        /\ call[n].result.tag = "Ok"
        /\ \E i, j \in 1..Len(call[n].sent) :
             /\ i < j
             /\ ~call[n].sent[i].ok
             /\ call[n].sent[j].ok

\* Thread t executes the first statement of init or of register_listener in
\* this step.
Establishes(t) ==
    /\ call'[t] # call[t]
    /\ call'[t].pc \in {"init_plugin", "reg_write"}

\* C10: the registry, once established, stays established; it becomes
\* established only in the first statement of init or of register_listener,
\* and is established after the first statement of either.
C10_EstablishedOnceAndForGood ==
    [][/\ LISTENERS.set => LISTENERS'.set
       /\ (~LISTENERS.set /\ LISTENERS'.set) => \E t \in Hosts : Establishes(t)
       /\ (\E t \in Hosts : Establishes(t)) => LISTENERS'.set]_vars

\* A remove_listener has removed the last subscriber, and the registry is
\* still established.
C10_Witness ==
    /\ LISTENERS.set
    /\ \A e \in Events : Subscribers(e) = {}
    /\ \E t \in Hosts :
         /\ call[t].pc = "ret"
         /\ call[t].op = "remove_listener"
         /\ call[t].prev # <<>>

\* Thread t executes init's LISTENERS.get_or_init(..) in this step.
InitCalled(t) ==
    /\ call'[t] # call[t]
    /\ call'[t].op = "init"
    /\ call'[t].pc = "init_plugin"

\* C11: establishing the registry is idempotent. The first statement of init
\* or of register_listener creates the empty registry only when none exists;
\* every step of an init call made once the registry exists leaves the
\* registry, and so every registered subscriber, as it was, also while another
\* task is inside init or inside register_listener.
C11_InitIsIdempotent ==
    [][\A t \in Hosts :
          /\ (Establishes(t) /\ ~LISTENERS.set)
             => LISTENERS' = [set |-> TRUE, map |-> EmptyMap]
          /\ (InitCalled(t) /\ LISTENERS.set) => LISTENERS' = LISTENERS
          /\ (call'[t] # call[t] /\ call[t].op = "init" /\ call[t].pc = "init_plugin")
             => LISTENERS' = LISTENERS]_vars

\* A repeated init has run its get_or_init while a subscriber is registered
\* and while another task holds the write lock inside register_listener.
C11_Witness ==
    \E t \in Hosts : \E u \in Hosts \ {t} :
        /\ call[t].op = "init"
        /\ call[t].pc = "init_plugin"
        /\ call[u].pc = "reg_insert"
        /\ rwlock.writer = u
        /\ \E e \in Events : Subscribers(e) # {}

\* Thread t takes a step of a register_listener or remove_listener call.
RegistryStep(t) ==
    /\ call'[t] # call[t]
    /\ call'[t].op \in {"register_listener", "remove_listener"}

\* C12: register_listener and remove_listener never invoke the native module
\* and never consult the signature gate: no step of theirs changes the count of
\* native invocations or anything but the registry, its lock and the call's
\* own locals, and they return Ok also when the gate reports the signature
\* invalid.
C12_RegistryOpsBypassGateAndNative ==
    [][\A t \in Hosts :
          RegistryStep(t)
          => /\ nativeCalls' = nativeCalls
             /\ iap' = iap
             /\ codesign' = codesign
             /\ \A u \in Threads \ {t} : call'[u] = call[u]
             /\ call'[t].pc = "ret" => call'[t].result.tag = "Ok"]_vars

\* With a signature the gate reports invalid, a remove_listener has returned
\* Ok after removing a subscriber that a register_listener had registered, and
\* a facade call was refused by the gate in the same run.
C12_Witness ==
    /\ SignatureInvalid
    /\ nativeCalls = 0
    /\ \E t \in Hosts :
         /\ call[t].pc = "ret"
         /\ call[t].op = "remove_listener"
         /\ call[t].prev # <<>>
         /\ call[t].result.tag = "Ok"
    /\ \E t \in Hosts :
         /\ call[t].pc = "ret"
         /\ call[t].op \in FacadeOps
         /\ call[t].result.tag = "InvokeRejected"

\* The places of a register_listener, remove_listener or trigger call that has
\* begun and not yet returned.
RegistryPcs ==
    {"reg_write", "reg_insert", "rem_write", "rem_remove", "trig_read", "trig_loop"}

\* C19: a facade call takes no registry lock and never changes the registry,
\* so a call suspended on the native module holds nothing: while facade calls
\* wait for an answer (which may never come), every register_listener,
\* remove_listener and trigger call that has begun returns.
C19_SuspendedCallsHoldNoLock ==
    /\ [](\A t \in Threads :
            call[t].pc \in {"native", "await"}
            => rwlock.writer # t /\ t \notin rwlock.readers)
    /\ [][\A t \in Threads :
            (call'[t] # call[t] /\ call'[t].op \in FacadeOps)
            => LISTENERS' = LISTENERS /\ rwlock' = rwlock]_vars
    /\ \A t \in Threads :
         (call[t].pc \in RegistryPcs) ~> (call[t].pc = "ret")

\* Two facade calls are suspended on the native module while a host task holds
\* the write lock inside register_listener and a trigger waits for the lock.
C19_Witness ==
    /\ \E t \in Hosts : \E u \in Hosts \ {t} :
         call[t].pc = "await" /\ call[u].pc = "await"
    /\ \E t \in Hosts : call[t].pc = "reg_insert" /\ rwlock.writer = t
    /\ \E t \in Natives : call[t].pc = "trig_read"

\* C13: on a platform without a native module every operation of the bridge
\* returns the platform-unsupported error in the step that calls it, whatever
\* its input and whatever calls came before, and changes nothing besides the
\* caller's own record of the call.
C13_UnsupportedPlatformAlwaysErrs ==
    [][\A t \in Hosts :
          (call'[t] # call[t]
           /\ call'[t].op \in {"initialize", "get_products", "purchase",
                               "restore_purchases", "get_purchase_history",
                               "acknowledge_purchase", "get_product_status"})
          => /\ call'[t].pc = "ret"
             /\ call'[t].result.tag = "Io"
             /\ call'[t].result.val = <<>>
             /\ call'[t].result.message = <<(<<"IAP is not supported on this platform">>)>>
             /\ UNCHANGED <<LISTENERS, rwlock, iap, codesign, nativeCalls>>
             /\ \A u \in Threads \ {t} : call'[u] = call[u]]_vars

\* After init and two other operations, one of them with an input, a host task
\* has got the error from get_purchase_history.
C13_Witness ==
    /\ started >= 4
    /\ \E t \in Hosts : \E u \in Hosts \ {t} : \E v \in Hosts \ {t, u} :
         /\ call[t].op = "get_purchase_history"
         /\ call[t].result.tag = "Io"
         /\ call[u].op = "purchase" /\ call[u].payload = "p2"
         /\ call[v].op = "initialize" /\ call[v].no = 0

\* Thread t's trigger call sends to channel h in this step.
SendsTo(t, h) ==
    /\ call'[t].no = call[t].no
    /\ Len(call'[t].sent) = Len(call[t].sent) + 1
    /\ call'[t].sent[Len(call'[t].sent)].channel = h

\* C14: when the native module serializes its trigger calls, a subscriber that
\* stays registered gets the payloads in the order of the calls. A call sends
\* only while it runs and nothing after it has returned; so at the moment a call
\* sends its own payload to subscriber h of event E, every other call made so
\* far is an earlier one that has returned, and if it was for E it has already
\* sent its payload to h.
C14_DeliveriesFollowCallOrder ==
    [][\A t \in Natives :
          /\ (call[t].pc = "ret" /\ call'[t].no = call[t].no)
             => call'[t].sent = call[t].sent
          /\ \A h \in Subscribers(call[t].event) :
               SendsTo(t, h)
               => /\ call[t].pc = "trig_loop"
                  /\ call'[t].sent[Len(call'[t].sent)].payload = call[t].payload
                  /\ \A u \in Natives \ {t} :
                       call[u].op = "trigger"
                       => /\ call[u].pc = "ret"
                          /\ call'[u] = call[u]
                          /\ call[u].event = call[t].event => h \in SentTo(call[u])]_vars

\* Two successive trigger calls for the same event with different payloads
\* have both delivered to the same subscriber, while the other event has a
\* subscriber too.
C14_Witness ==
    \E t \in Natives : \E u \in Natives \ {t} :
        /\ call[t].pc = "ret" /\ call[u].pc = "ret"
        /\ call[t].event = call[u].event
        /\ call[t].payload # call[u].payload
        /\ \E i \in 1..Len(call[t].sent), j \in 1..Len(call[u].sent) :
             /\ call[t].sent[i].channel = call[u].sent[j].channel
             /\ call[t].sent[i].ok /\ call[u].sent[j].ok
        /\ \E e \in Events \ {call[t].event} : Subscribers(e) # {}

\* Thread t has called listeners.write() and waits for the lock.
WaitsForWrite(t) == call[t].pc \in {"reg_write", "rem_write", "handler_write"}

\* C15: no deadlock is reachable, also when a delivery handler calls
\* register_listener or remove_listener: a call never waits for the write lock
\* while its own thread holds the lock, so every lock a call waits for is
\* released by calls that can go on, and every started call completes.
C15_NoCallWaitsForItsOwnLock ==
    \A t \in Threads :
        /\ WaitsForWrite(t) => rwlock.writer # t /\ t \notin rwlock.readers
        /\ call[t].pc # "panic"

\* The message of result r, as one text (its pieces concatenated in order).
MessagePieces(r) == IF r.message = <<>> THEN <<>> ELSE r.message[1]

\* C16: once a panic has poisoned the registry lock, trigger,
\* register_listener and remove_listener return an error value that names the
\* failed lock (they do not panic), nothing is sent, and the registry stays as
\* the panic left it.
C16_PoisonedLockIsReportedAsError ==
    [][rwlock.poisoned
       => /\ LISTENERS' = LISTENERS
          /\ \A t \in Threads :
               /\ call'[t].pc = "panic" => call[t].pc = "panic"
               /\ Len(call'[t].sent) <= Len(call[t].sent)
               /\ (Returns(t) /\ call'[t].op = "trigger")
                  => /\ call'[t].result.tag = "FFIResult::Err"
                     /\ call'[t].sent = <<>>
                     /\ MessagePieces(call'[t].result)
                          = <<"Failed to acquire read lock: ">> \o PoisonText
               /\ (Returns(t) /\ call'[t].op \in {"register_listener", "remove_listener"})
                  => /\ call'[t].result.tag = "InvokeRejected"
                     /\ call'[t].result.code = <<>>
                     /\ MessagePieces(call'[t].result)
                          = <<"Failed to acquire write lock: ">> \o PoisonText]_vars

\* The lock is poisoned while a subscriber is registered, and a trigger for
\* its event and a register_listener have both returned their errors.
C16_Witness ==
    /\ rwlock.poisoned
    /\ Subscribers("purchaseUpdated") # {}
    /\ \E t \in Natives :
         /\ call[t].pc = "ret"
         /\ call[t].op = "trigger"
         /\ call[t].result.tag = "FFIResult::Err"
    /\ \E t \in Hosts :
         /\ call[t].pc = "ret"
         /\ call[t].op = "register_listener"
         /\ call[t].result.tag = "InvokeRejected"

\* C17: the display string of an ErrorResponse is "[code]" when only the code
\* is set, the message when only the message is set, "[code] - message" when
\* both are set, and empty when neither is set.
C17_DisplayByPresence ==
    \A t \in Hosts :
        (call[t].op = "to_string" /\ call[t].pc = "ret")
        => LET r == call[t].payload
               out == call[t].result.val[1]
           IN  /\ call[t].result.tag = "Ok"
               /\ (r.code # <<>> /\ r.message = <<>>)
                  => out = <<"[">> \o r.code[1] \o <<"]">>
               /\ (r.code = <<>> /\ r.message # <<>>)
                  => out = r.message[1]
               /\ (r.code # <<>> /\ r.message # <<>>)
                  => out = <<"[">> \o r.code[1] \o <<"]", " - ">> \o r.message[1]
               /\ (r.code = <<>> /\ r.message = <<>>)
                  => out = <<>>

\* An ErrorResponse with a code and no message has been formatted, to a
\* string that ends with the closing bracket.
C17_Witness ==
    \E t \in Hosts :
        /\ call[t].op = "to_string"
        /\ call[t].pc = "ret"
        /\ call[t].payload.code # <<>>
        /\ call[t].payload.code[1] # <<>>
        /\ call[t].payload.message = <<>>
        /\ call[t].result.val[1][Len(call[t].result.val[1])] = "]"

\* The facade operations that begin with the signature gate.
PrivilegedOps ==
    {"get_products", "purchase", "restore_purchases", "acknowledge_purchase",
     "get_product_status"}

\* C18: a privileged facade call runs gate, native call, marshaling, in that
\* order and each once. Its first step is the gate, which invokes nothing and
\* either lets the call on to the native operation or returns the gate's
\* error; its second step is the one invocation of the native operation; its
\* third step returns what parse makes of the native outcome. The native
\* module is invoked in no other step.
C18_GateThenNativeOnceThenMarshal ==
    [][/\ \A t \in Hosts :
            (call'[t] # call[t] /\ call'[t].op \in PrivilegedOps)
            => \/ /\ started' = started + 1
                  /\ nativeCalls' = nativeCalls
                  /\ IF SignatureInvalid
                     THEN call'[t].pc = "ret" /\ call'[t].result.tag = "InvokeRejected"
                     ELSE call'[t].pc = "native"
               \/ /\ started' = started
                  /\ call[t].pc = "native"
                  /\ call'[t] = [call[t] EXCEPT !.pc = "await"]
                  /\ nativeCalls' = nativeCalls + 1
                  /\ ~SignatureInvalid
               \/ /\ started' = started
                  /\ call[t].pc = "await"
                  /\ call'[t].pc = "ret"
                  /\ nativeCalls' = nativeCalls
                  /\ call'[t].outcome # <<>>
                  /\ call'[t].result = parse(call'[t].outcome[1])
       /\ nativeCalls' # nativeCalls
          => \E t \in Hosts : call[t].pc = "native" /\ call'[t].pc = "await"]_vars

\* Two privileged calls have returned what parse made of the native outcome
\* after one invocation each: the second, a purchase, an error of the native
\* module.
C18_Witness ==
    /\ nativeCalls = 2
    /\ started = 3
    /\ \E t \in Hosts :
         /\ call[t].pc = "ret"
         /\ call[t].op = "purchase"
         /\ call[t].outcome # <<>>
         /\ ~call[t].outcome[1].ok
         /\ call[t].result.tag = "InvokeRejected"

\* The entry of subscriber (e, id) in registry m, as an Option.
Entry(m, e, id) ==
    IF e \in DOMAIN m /\ id \in DOMAIN m[e] THEN <<m[e][id]>> ELSE <<>>

\* C20: subscribers are keyed by event and id. The insert of
\* register_listener(E, h) and the removal of remove_listener(E, id) change at
\* most the entry (E, id) and leave the entry of every other pair of event and
\* id, the same id under another event included, as it was; and a trigger for
\* an event sends to the id's channel under that event whether or not the id
\* is registered under another event.
C20_EntriesAreKeyedPerEvent ==
    [][/\ \A t \in Hosts :
            (call[t].pc \in {"reg_insert", "rem_remove"} /\ call'[t].pc = "ret")
            => LET id == IF call[t].pc = "reg_insert"
                         THEN call[t].handler.id
                         ELSE call[t].channel_id
               IN  \A e \in Events, i \in Ids :
                     <<e, i>> # <<call[t].event, id>>
                     => Entry(LISTENERS'.map, e, i) = Entry(LISTENERS.map, e, i)
       /\ \A n \in Natives :
            (Returns(n) /\ call'[n].op = "trigger" /\ call'[n].result.tag = "Ok")
            => \A i \in Ids :
                 Entry(LISTENERS.map, call'[n].event, i) # <<>>
                 => Entry(LISTENERS.map, call'[n].event, i)[1] \in SentTo(call'[n])]_vars

\* An id was registered under both events and a remove_listener has removed
\* it from one of them; a trigger for the other event that took the read lock
\* after the removal has sent to the id's channel.
C20_Witness ==
    \E t \in Hosts, n \in Natives :
        /\ call[t].pc = "ret"
        /\ call[t].op = "remove_listener"
        /\ call[t].prev # <<>>
        /\ Entry(LISTENERS.map, call[t].event, call[t].channel_id) = <<>>
        /\ call[n].pc = "trig_loop"
        /\ n \in rwlock.readers
        /\ call[n].event # call[t].event
        /\ \E i \in 1..Len(call[n].sent) :
             /\ call[n].sent[i].channel.id = call[t].channel_id
             /\ call[n].sent[i].ok

\* The channels registered for event e in registry cell.
ChannelsOf(cell, e) == {GetChannels(cell.map, e)[id] : id \in DOMAIN GetChannels(cell.map, e)}

\* Thread t is inside the loop of trigger, between read() and its return.
InLoop(t) == call[t].op = "trigger" /\ call[t].pc = "trig_loop"

\* C21: a trigger(E, P) that runs concurrently with register_listener and
\* remove_listener delivers to the registered set of E as it is at one instant:
\* no write changes the registry while a trigger is inside its loop, every
\* send of the loop goes to a channel registered for E that the call has not
\* sent to yet, and the call returns when it has sent to every channel
\* registered for E; a remove_listener that returns Ok leaves its id
\* unregistered, and a channel that is not registered for E when a trigger has
\* not begun (its remove_listener has returned, or another channel took its
\* id) receives nothing from that trigger.
C21_TriggerIsAtomicWithWrites ==
    /\ [][/\ LISTENERS' # LISTENERS => \A t \in Natives : ~InLoop(t)
          /\ \A t \in Natives :
                (InLoop(t) /\ call'[t].sent # call[t].sent)
                => \E ch \in ChannelsOf(LISTENERS, call[t].event) \ SentTo(call[t]) :
                      call'[t].sent = Append(call[t].sent,
                          [channel |-> ch, payload |-> call[t].payload,
                           ok |-> call'[t].sent[Len(call'[t].sent)].ok])
          /\ \A t \in Natives :
                (InLoop(t) /\ call'[t].pc = "ret")
                => SentTo(call'[t]) = ChannelsOf(LISTENERS, call[t].event)
          /\ \A h \in Hosts :
                (/\ Returns(h)
                 /\ call'[h].op = "remove_listener"
                 /\ call'[h].result.tag = "Ok")
                => call'[h].channel_id
                      \notin DOMAIN GetChannels(LISTENERS'.map, call'[h].event)]_vars
    /\ \A t \in Natives : \A ch \in [id : Ids, inst : {"a"}] : \A n \in {0, 1} :
          []((/\ call[t].pc \in {"idle", "ret"}
              /\ call[t].no = n
              /\ ch \notin ChannelsOf(LISTENERS, "purchaseUpdated"))
             => [](call[t].no = 1 - n => ch \notin SentTo(call[t])))

\* A trigger has returned after sending to one channel and not to the channel
\* whose remove_listener returned, having found it, while the trigger had sent
\* nothing yet, and to a channel whose register_listener returned meanwhile.
C21_Witness ==
    \E t \in Natives : \E h \in Hosts :
        /\ call[t].pc = "ret"
        /\ call[t].op = "trigger"
        /\ call[t].sent # <<>>
        /\ call[h].pc = "ret"
        /\ call[h].op = "remove_listener"
        /\ call[h].event = call[t].event
        /\ call[h].prev # <<>>
        /\ call[h].prev[1] \notin SentTo(call[t])
        /\ \E g \in Hosts :
             /\ call[g].pc = "ret"
             /\ call[g].op = "register_listener"
             /\ call[g].handler \in SentTo(call[t])

\* Thread t begins a call of trigger in this step.
BeginsTrigger(t) == call'[t].no # call[t].no /\ call'[t].op = "trigger"

\* C22: a trigger that begins while the registry is not established (before
\* init and before any register_listener) returns in the same step with the
\* error "Listeners not initialized", has sent nothing, and leaves the
\* registry unestablished and the lock untouched.
C22_TriggerBeforeInitIsRejected ==
    [][\A t \in Natives :
          (BeginsTrigger(t) /\ ~LISTENERS.set)
          => /\ call'[t].pc = "ret"
             /\ call'[t].result = FFIErr(<<"Listeners not initialized">>)
             /\ call'[t].sent = <<>>
             /\ LISTENERS' = LISTENERS
             /\ rwlock' = rwlock]_vars

\* A trigger has returned "Listeners not initialized", having sent nothing,
\* and the registry is still not established.
C22_Witness ==
    \E t \in Natives :
        /\ call[t].pc = "ret"
        /\ call[t].op = "trigger"
        /\ call[t].result = FFIErr(<<"Listeners not initialized">>)
        /\ call[t].sent = <<>>
        /\ ~LISTENERS.set

====
